---- MODULE Spec2Model ----
(***************************************************************************)
(* Model of mc_json_stuff (src/src/lib.rs): McModelJson::to_cpu_mesh, the  *)
(* conversion of a block model into a texture atlas and a deduplicated     *)
(* triangle mesh.                                                          *)
(*                                                                         *)
(* Numbers.  Positions are f64 values.  The model keeps the part of f64    *)
(* that the conversion can observe on its inputs: small integers, on which *)
(* f64 arithmetic is exact, a finite value Huge near 1e308, on which       *)
(* addition absorbs small values and overflows to an infinity, the         *)
(* infinities, and NaN (0 * inf, inf - inf).  Negative zero is not a value *)
(* of the model: no position or UV handed to push_pos can be -0.0 (every   *)
(* position is a sum that ends in "+ 0.0*0.0" and "+ origin", every UV is  *)
(* "non-negative integer + u" followed by "+/- bleed").                    *)
(*                                                                         *)
(* UVs.  Declared uv components are in units of 1/16 texel, resolved UVs   *)
(* in units of bleed = 1/(2048*16), so that (min + u)/2048 and +/- bleed   *)
(* are exact integer operations, as they are exact in f64 on these inputs. *)
(*                                                                         *)
(* Strings are sequences of tokens ("#", "a", ".png"), so that             *)
(* strip_prefix and push_str do what the code does.                        *)
(***************************************************************************)
EXTENDS Integers, Sequences, FiniteSets, TLC

VARIABLES model, files, pc, ti, ei, fi, atlas, err_tex, atlas_mappings, tex,
          datas, indices, result, pushed, opened, allocs, resolved,
          run, first, probe

vars == <<model, files, pc, ti, ei, fi, atlas, err_tex, atlas_mappings, tex,
          datas, indices, result, pushed, opened, allocs, resolved,
          run, first, probe>>

(***************************************************************************)
(* Bounds of the model                                                     *)
(***************************************************************************)
\* the code of a finite f64 near 1e308; the small values lie strictly inside
\* -Huge..Huge
Huge == 1000
\* the longest sequence of elements of a model in the geometry family
MaxElements == 2
\* how far around each index-width boundary the vertex counts are drawn
MaxDelta == 8

(***************************************************************************)
(* Program constants                                                       *)
(***************************************************************************)
\* RgbaImage::new(2048, 2048), AtlasAllocator::new(size2(2048, 2048)), "/ 2048.0"
AtlasSize == 2048
\* size2(16, 16): the not-found rectangle; also the 16 of (2048.0 * 16.0).recip()
TexelRef == 16

(***************************************************************************)
(* Option values: <<>> is None, <<x>> is Some(x)                           *)
(***************************************************************************)
None == <<>>
Some(x) == <<x>>
IsSome(o) == o # <<>>
Unwrap(o) == o[1]

(***************************************************************************)
(* f64 positions.  A value is a small integer (exact), +/-Huge (a finite   *)
(* f64 near 1e308), +/-infinity or NaN.                                    *)
(***************************************************************************)
PosInf == Huge + 1
NegInf == -(Huge + 1)
NaN == Huge + 2
IsNaN(a) == a = NaN
IsInf(a) == a = PosInf \/ a = NegInf
IsHuge(a) == a = Huge \/ a = -Huge
IsSmall(a) == a > -Huge /\ a < Huge

Sign(a) == IF a > 0 THEN 1 ELSE IF a < 0 THEN -1 ELSE 0

FNeg(a) == IF IsNaN(a) THEN NaN ELSE -a

\* a + b, rounded to nearest: a small value added to +/-Huge is absorbed, and
\* Huge + Huge is beyond f64::MAX
FAdd(a, b) ==
    IF IsNaN(a) \/ IsNaN(b) THEN NaN
    ELSE IF IsInf(a) /\ IsInf(b) THEN (IF a = b THEN a ELSE NaN)
    ELSE IF IsInf(a) THEN a
    ELSE IF IsInf(b) THEN b
    ELSE IF IsHuge(a) /\ IsHuge(b) THEN (IF a = b THEN Sign(a) * PosInf ELSE 0)
    ELSE IF IsHuge(a) THEN a
    ELSE IF IsHuge(b) THEN b
    ELSE a + b

FSub(a, b) == FAdd(a, FNeg(b))

\* a * b: 0 * inf is NaN, and Huge times anything beyond 1 in size overflows
FMul(a, b) ==
    IF IsNaN(a) \/ IsNaN(b) THEN NaN
    ELSE IF IsInf(a) \/ IsInf(b)
         THEN (IF a = 0 \/ b = 0 THEN NaN ELSE Sign(a) * Sign(b) * PosInf)
    ELSE IF a = 0 \/ b = 0 THEN 0
    ELSE IF IsHuge(a) /\ IsHuge(b) THEN Sign(a) * Sign(b) * PosInf
    ELSE IF IsHuge(a) THEN (IF b = 1 \/ b = -1 THEN b * a ELSE Sign(a) * Sign(b) * PosInf)
    ELSE IF IsHuge(b) THEN (IF a = 1 \/ a = -1 THEN a * b ELSE Sign(a) * Sign(b) * PosInf)
    ELSE a * b

\* f64 "==" (PartialEq): a NaN equals nothing, itself included
F64Eq(a, b) == ~IsNaN(a) /\ ~IsNaN(b) /\ a = b

\* f64 "<"
F64Lt(a, b) == ~IsNaN(a) /\ ~IsNaN(b) /\ a < b

\* f64::to_bits equality: the same value, a NaN included
SameBits(a, b) == a = b

Vec3(x, y, z) == <<x, y, z>>
VSub(a, b) == <<FSub(a[1], b[1]), FSub(a[2], b[2]), FSub(a[3], b[3])>>
VAdd(a, b) == <<FAdd(a[1], b[1]), FAdd(a[2], b[2]), FAdd(a[3], b[3])>>

(***************************************************************************)
(* Element rotation: cgmath Matrix4::from_angle_{x,y,z}(Deg(angle)) and    *)
(* transform_vector.  Angles are whole quarter turns, whose sine and       *)
(* cosine are taken exactly; f64 gives cos(90 deg) = 6.1e-17, so positions *)
(* turned by 90 or 270 degrees are the program's up to one rounding step.  *)
(* Sine and cosine of 0 degrees are exact in f64 as well.                  *)
(***************************************************************************)
Axes == {"X", "Y", "Z"}
Angles == {0, 90, 180, 270}

CosDeg(a) == CASE a = 0 -> 1 [] a = 90 -> 0 [] a = 180 -> -1 [] a = 270 -> 0
SinDeg(a) == CASE a = 0 -> 0 [] a = 90 -> 1 [] a = 180 -> 0 [] a = 270 -> -1

\* the matrices of the opposite sense of rotation (the transposes)
FromAngleTransposed(axis, a) ==
    LET c == CosDeg(a)
        s == SinDeg(a)
    IN CASE axis = "X" -> << <<1, 0, 0>>, <<0, c, -s>>, <<0, s, c>> >>
         [] axis = "Y" -> << <<c, 0, s>>, <<0, 1, 0>>, <<-s, 0, c>> >>
         [] axis = "Z" -> << <<c, -s, 0>>, <<s, c, 0>>, <<0, 0, 1>> >>

\* the three columns of the upper 3x3 block (column-major, as cgmath stores it)
FromAngle(axis, a) ==
    LET c == CosDeg(a)
        s == SinDeg(a)
    IN CASE axis = "X" -> << <<1, 0, 0>>, <<0, c, s>>, <<0, -s, c>> >>
         [] axis = "Y" -> << <<c, 0, -s>>, <<0, 1, 0>>, <<s, 0, c>> >>
         [] axis = "Z" -> << <<c, s, 0>>, <<-s, c, 0>>, <<0, 0, 1>> >>

Identity == << <<1, 0, 0>>, <<0, 1, 0>>, <<0, 0, 1>> >>

\* (mat * vec.extend(0.0)).truncate(): col0*x + col1*y + col2*z + col3*0.0
MatRow(m, v, i) ==
    FAdd(FAdd(FAdd(FMul(m[1][i], v[1]), FMul(m[2][i], v[2])),
              FMul(m[3][i], v[3])), 0)

TransformVector(m, v) == <<MatRow(m, v, 1), MatRow(m, v, 2), MatRow(m, v, 3)>>

\* let (rot, origin) = if let Some(rot) = &element.rotation {..} else {..}
ElementRot(element) ==
    IF IsSome(element.rotation)
    THEN LET r == Unwrap(element.rotation)
         IN [mat |-> FromAngle(r.axis, r.angle), origin |-> r.origin]
    ELSE [mat |-> Identity, origin |-> <<0, 0, 0>>]

\* the inner push_pos closure: rot.transform_vector(vec3(x, y, z) - origin) + origin
RotatePos(ro, v) == VAdd(TransformVector(ro.mat, VSub(v, ro.origin)), ro.origin)

\* fn minmax
minmax(a, b) == IF F64Lt(a, b) THEN <<a, b>> ELSE <<b, a>>

\* let (p0, p1) = {...}; returned as <<p0, p1>>
BoxCorners(element) ==
    LET xs == minmax(element.from[1], element.to[1])
        ys == minmax(element.from[2], element.to[2])
        zs == minmax(element.from[3], element.to[3])
    IN << <<xs[1], ys[1], zs[1]>>, <<xs[2], ys[2], zs[2]>> >>

(***************************************************************************)
(* Directions and shading                                                  *)
(***************************************************************************)
Directions == <<"north", "east", "south", "west", "up", "down">>

\* a table that shades the two horizontal faces alike
get_shading_mult_vertical(dir) ==
    CASE dir = "north" -> 8
      [] dir = "east" -> 6
      [] dir = "south" -> 8
      [] dir = "west" -> 6
      [] dir = "up" -> 10
      [] dir = "down" -> 10

\* get_shading_mult, in tenths
get_shading_mult(dir) ==
    CASE dir = "north" -> 8
      [] dir = "east" -> 6
      [] dir = "south" -> 8
      [] dir = "west" -> 6
      [] dir = "up" -> 10
      [] dir = "down" -> 5

\* get_shading_srgba: Srgba::from([shading, shading, shading, 1.0]); the
\* colour is kept as the four components handed to Srgba::from, a conversion
\* of the three_d crate
get_shading_srgba(dir) ==
    LET shading == get_shading_mult(dir)
    IN <<shading, shading, shading, 10>>

(***************************************************************************)
(* The vertex table: Vec3S, its PartialEq and Hash, and push_pos           *)
(***************************************************************************)
Vec3S(x, y, z, u, v, color) ==
    [x |-> x, y |-> y, z |-> z, u |-> u, v |-> v, color |-> color]

\* #[derive(PartialEq)]: field by field with f64 "=="
Vec3SEq(a, b) ==
    /\ F64Eq(a.x, b.x) /\ F64Eq(a.y, b.y) /\ F64Eq(a.z, b.z)
    /\ a.u = b.u /\ a.v = b.v /\ a.color = b.color

\* impl Hash: the hasher is fed to_bits() of each float, then the color
Vec3SHash(a) == <<a.x, a.y, a.z, a.u, a.v, a.color>>

\* IndexMap::get_full: the position (from 1) of the stored key with the
\* hash of pos that equals pos, 0 when there is none
GetFull(d, pos) ==
    LET hit == {i \in 1..Len(d) : Vec3SHash(d[i]) = Vec3SHash(pos) /\ Vec3SEq(d[i], pos)}
    IN IF hit = {} THEN 0 ELSE CHOOSE i \in hit : \A j \in hit : i <= j

\* IndexMap::insert(pos, ()): appends unless an equal key is stored
Insert(d, pos) == IF GetFull(d, pos) # 0 THEN d ELSE Append(d, pos)

\* the outer push_pos closure on (datas, indices)
PushPos(st, pos) ==
    LET idx == GetFull(st.datas, pos)
    IN IF idx # 0
       THEN [datas |-> st.datas, indices |-> Append(st.indices, idx - 1)]
       ELSE [datas |-> Insert(st.datas, pos),
             indices |-> Append(st.indices, Len(st.datas))]

(***************************************************************************)
(* The atlas: etagere's AtlasAllocator as a shelf packer over the          *)
(* AtlasSize x AtlasSize canvas.  The allocator state is the sequence of   *)
(* shelves, each [y, h, x]: its top, its height and the next free x.       *)
(***************************************************************************)
Rect(x, y, w, h) == [min |-> <<x, y>>, max |-> <<x + w, y + h>>]

\* AtlasAllocator::new(size2(2048, 2048))
NewAtlas == <<>>

RECURSIVE ShelvesHeight(_)
ShelvesHeight(shelves) ==
    IF shelves = <<>> THEN 0 ELSE Head(shelves).h + ShelvesHeight(Tail(shelves))

\* atlas.allocate(size2(w, h)): None when the size does not fit, else the
\* rectangle and the allocator after it
Allocate(shelves, w, h) ==
    LET fits == {i \in 1..Len(shelves) :
                    shelves[i].h >= h /\ shelves[i].x + w <= AtlasSize}
        best == CHOOSE i \in fits :
                    \A j \in fits : shelves[i].h < shelves[j].h
                                    \/ (shelves[i].h = shelves[j].h /\ i <= j)
        top == ShelvesHeight(shelves)
    IN IF w <= 0 \/ h <= 0 \/ w > AtlasSize \/ h > AtlasSize THEN None
       ELSE IF fits # {}
       THEN Some([rectangle |-> Rect(shelves[best].x, shelves[best].y, w, h),
                  atlas |-> [shelves EXCEPT ![best].x = @ + w]])
       ELSE IF top + h <= AtlasSize
       THEN Some([rectangle |-> Rect(0, top, w, h),
                  atlas |-> Append(shelves, [y |-> top, h |-> h, x |-> w])])
       ELSE None

(***************************************************************************)
(* Texture files.  A path is a sequence of tokens; the file system of a    *)
(* model maps the paths that hold a decodable image to its <<w, h>>.       *)
(***************************************************************************)
\* texture_path.push_str(".png"); texture_base_path.join(&texture_path)
TexturePath(tex_path) == <<"base", "/">> \o tex_path \o <<".png">>

\* the file named after the key of the entry
TextureFileByKey(entry) == TexturePath(entry.id)

\* the entries in reverse order, as an unordered map may iterate them
TextureOrderReversed(textures) ==
    [k \in 1..Len(textures) |-> textures[Len(textures) + 1 - k]]

\* let texture_path = {tex_path.clone() + ".png", joined to the base}: the
\* file of an entry (tex_id, tex_path) of self.textures
TextureFile(entry) == TexturePath(entry.path)

\* "for (tex_id, tex_path) in &self.textures": an IndexMap iterates in
\* insertion order
TextureOrder(textures) == textures

\* image::open(&texture_path): Some(<<w, h>>) or None
ImageOpen(fs, path) == IF path \in DOMAIN fs THEN Some(fs[path]) ELSE None

\* HashMap::insert
MapInsert(m, k, v) == [x \in DOMAIN m \cup {k} |-> IF x = k THEN v ELSE m[x]]

\* the checkerboard written over err_tex.rectangle, then one blit per tile
Blit(rectangle, src) == [at |-> rectangle.min, src |-> src]

(***************************************************************************)
(* get_uv                                                                  *)
(***************************************************************************)
\* (2048.0f64 * 16.0).recip(), in units of 1/(AtlasSize * TexelRef)
bleed == 1

\* str::strip_prefix('#')
StripPrefix(s) == IF Len(s) > 0 /\ Head(s) = "#" THEN Some(Tail(s)) ELSE None

\* (offset.min as f64 + u) / 2048.0, u in 1/TexelRef texel, result in bleed units
Normalize(minc, u) == TexelRef * minc + u

\* let [a, b] = if a < b { [a + bleed, b - bleed] } else { [a - bleed, b + bleed] }
BleedPair(a, b) == IF a < b THEN <<a + bleed, b - bleed>> ELSE <<a - bleed, b + bleed>>

\* Err(kind); and Ok((flip, uv)), with the four values before the bleed (raw)
\* and the rectangle used (offset) kept beside it
UvErr(kind) ==
    [ok |-> FALSE, err |-> kind, flip |-> FALSE, uv |-> <<0, 0, 0, 0>>,
     raw |-> <<0, 0, 0, 0>>, offset |-> Rect(0, 0, 0, 0)]

UvOk(flip, uv, raw, offset) ==
    [ok |-> TRUE, err |-> "", flip |-> flip, uv |-> uv, raw |-> raw, offset |-> offset]

\* a face rotation taken as 0 when it is none of 90, 180, 270
RotateUvAnyAngle(rot, q) ==
    CASE rot = 90 -> [ok |-> TRUE, flip |-> TRUE, uv |-> <<q[1], q[4], q[3], q[2]>>]
      [] rot = 180 -> [ok |-> TRUE, flip |-> FALSE, uv |-> <<q[3], q[4], q[1], q[2]>>]
      [] rot = 270 -> [ok |-> TRUE, flip |-> TRUE, uv |-> <<q[3], q[2], q[1], q[4]>>]
      [] OTHER -> [ok |-> TRUE, flip |-> FALSE, uv |-> q]

\* "match face.rotation {..}" on q = [u0, v0, u1, v1]; ok is FALSE for the bail!
RotateUv(rot, q) ==
    CASE rot = 0 -> [ok |-> TRUE, flip |-> FALSE, uv |-> <<q[1], q[2], q[3], q[4]>>]
      [] rot = 90 -> [ok |-> TRUE, flip |-> TRUE, uv |-> <<q[1], q[4], q[3], q[2]>>]
      [] rot = 180 -> [ok |-> TRUE, flip |-> FALSE, uv |-> <<q[3], q[4], q[1], q[2]>>]
      [] rot = 270 -> [ok |-> TRUE, flip |-> TRUE, uv |-> <<q[3], q[2], q[1], q[4]>>]
      [] OTHER -> [ok |-> FALSE, flip |-> FALSE, uv |-> <<0, 0, 0, 0>>]

GetUv(face, mappings, errRect) ==
    LET id == StripPrefix(face.texture)
    IN IF ~IsSome(id) THEN UvErr("texture ID should start with '#'")
       ELSE
       LET offset == IF Unwrap(id) \in DOMAIN mappings
                     THEN mappings[Unwrap(id)].rectangle
                     ELSE errRect.rectangle
           \* let [u0, v0, u1, v1] = face.uv; let [v0, v1] = [v1, v0];
           du0 == face.uv[1]
           dv0 == face.uv[4]
           du1 == face.uv[3]
           dv1 == face.uv[2]
           r == RotateUv(face.rotation, <<du0, dv0, du1, dv1>>)
           u0 == Normalize(offset.min[1], r.uv[1])
           v0 == Normalize(offset.min[2], r.uv[2])
           u1 == Normalize(offset.min[1], r.uv[3])
           v1 == Normalize(offset.min[2], r.uv[4])
           us == BleedPair(u0, u1)
           vs == BleedPair(v0, v1)
       IN IF ~r.ok THEN UvErr("unsupported rotation")
          ELSE UvOk(r.flip, <<us[1], vs[1], us[2], vs[2]>>, <<u0, v0, u1, v1>>, offset)

(***************************************************************************)
(* Face emission: the six push_pos calls of each direction, for each value *)
(* of the swap flag.  A row <<sx, sy, sz, su, sv>> selects p0 (0) or p1 (1)*)
(* per coordinate and u0/v0 (0) or u1/v1 (1).                              *)
(***************************************************************************)
FaceTemplate(dir, rotate) ==
    CASE dir = "north" /\ ~rotate ->
           << <<0,0,0,1,0>>, <<0,1,0,1,1>>, <<1,1,0,0,1>>,
              <<1,1,0,0,1>>, <<1,0,0,0,0>>, <<0,0,0,1,0>> >>
      [] dir = "north" /\ rotate ->
           << <<0,0,0,1,0>>, <<0,1,0,0,0>>, <<1,1,0,0,1>>,
              <<1,1,0,0,1>>, <<1,0,0,1,1>>, <<0,0,0,1,0>> >>
      [] dir = "east" /\ ~rotate ->
           << <<1,0,0,1,0>>, <<1,1,0,1,1>>, <<1,1,1,0,1>>,
              <<1,1,1,0,1>>, <<1,0,1,0,0>>, <<1,0,0,1,0>> >>
      [] dir = "east" /\ rotate ->
           << <<1,0,0,1,0>>, <<1,1,0,0,0>>, <<1,1,1,0,1>>,
              <<1,1,1,0,1>>, <<1,0,1,1,1>>, <<1,0,0,1,0>> >>
      [] dir = "south" /\ ~rotate ->
           << <<1,0,1,1,0>>, <<1,1,1,1,1>>, <<0,1,1,0,1>>,
              <<0,1,1,0,1>>, <<0,0,1,0,0>>, <<1,0,1,1,0>> >>
      [] dir = "south" /\ rotate ->
           << <<1,0,1,1,0>>, <<1,1,1,0,0>>, <<0,1,1,0,1>>,
              <<0,1,1,0,1>>, <<0,0,1,1,1>>, <<1,0,1,1,0>> >>
      [] dir = "west" /\ ~rotate ->
           << <<0,0,1,1,0>>, <<0,1,1,1,1>>, <<0,1,0,0,1>>,
              <<0,1,0,0,1>>, <<0,0,0,0,0>>, <<0,0,1,1,0>> >>
      [] dir = "west" /\ rotate ->
           << <<0,0,1,1,0>>, <<0,1,1,0,0>>, <<0,1,0,0,1>>,
              <<0,1,0,0,1>>, <<0,0,0,1,1>>, <<0,0,1,1,0>> >>
      [] dir = "up" /\ ~rotate ->
           << <<1,1,1,1,0>>, <<1,1,0,1,1>>, <<0,1,0,0,1>>,
              <<0,1,0,0,1>>, <<0,1,1,0,0>>, <<1,1,1,1,0>> >>
      [] dir = "up" /\ rotate ->
           << <<1,1,1,1,0>>, <<1,1,0,0,0>>, <<0,1,0,0,1>>,
              <<0,1,0,0,1>>, <<0,1,1,1,1>>, <<1,1,1,1,0>> >>
      [] dir = "down" /\ ~rotate ->
           << <<1,0,0,1,0>>, <<1,0,1,1,1>>, <<0,0,1,0,1>>,
              <<0,0,1,0,1>>, <<0,0,0,0,0>>, <<1,0,0,1,0>> >>
      [] dir = "down" /\ rotate ->
           << <<1,0,0,1,0>>, <<1,0,1,0,0>>, <<0,0,1,0,1>>,
              <<0,0,1,0,1>>, <<0,0,0,1,1>>, <<1,0,0,1,0>> >>

\* the unrotated position a row names: (p?.x, p?.y, p?.z)
TemplatePos(p, row) == <<p[row[1] + 1][1], p[row[2] + 1][2], p[row[3] + 1][3]>>

\* one push_pos(x, y, z, u, v, color) call of a face, through both closures
RowKey(ro, p, uv, color, row) ==
    LET pos == RotatePos(ro, TemplatePos(p, row))
        u == IF row[4] = 0 THEN uv[1] ELSE uv[3]
        v == IF row[5] = 0 THEN uv[2] ELSE uv[4]
    IN Vec3S(pos[1], pos[2], pos[3], u, v, color)

\* the keys of the six calls of a face, in call order
FaceKeys(element, dir, out) ==
    LET ro == ElementRot(element)
        p == BoxCorners(element)
        color == get_shading_srgba(dir)
        rows == FaceTemplate(dir, out.flip)
    IN [k \in 1..6 |-> RowKey(ro, p, out.uv, color, rows[k])]

RECURSIVE PushAll(_, _)
PushAll(st, keys) ==
    IF keys = <<>> THEN st ELSE PushAll(PushPos(st, Head(keys)), Tail(keys))

(***************************************************************************)
(* Mesh assembly: the index width from datas.len().  The length is given   *)
(* as two 16-bit-scaled limbs, len = hi * 65536 + lo with 0 <= lo < 65536, *)
(* so that lengths around 2^32 can be written.                             *)
(***************************************************************************)
\* the 8-bit form kept for one length too many
IndicesFormOffByOne(hi, lo) ==
    IF hi = 0 /\ lo = 0 THEN "None"
    ELSE IF hi = 0 /\ lo >= 1 /\ lo <= 256 THEN "U8"
    ELSE IF hi = 0 /\ lo >= 257 /\ lo <= 65535 THEN "U16"
    ELSE IF hi >= 1 /\ hi <= 65535 THEN "U32"
    ELSE "too many indices"

IndicesForm(hi, lo) ==
    IF hi = 0 /\ lo = 0 THEN "None"
    ELSE IF hi = 0 /\ lo >= 1 /\ lo <= 255 THEN "U8"
    ELSE IF hi = 0 /\ lo >= 256 /\ lo <= 65535 THEN "U16"
    ELSE IF hi >= 1 /\ hi <= 65535 THEN "U32"
    ELSE "too many indices"

\* CpuMesh {positions, indices, uvs, colors}
CpuMesh(d, ix) ==
    [positions |-> [i \in 1..Len(d) |-> <<d[i].x, d[i].y, d[i].z>>],
     indices |-> [form |-> IndicesForm(Len(d) \div 65536, Len(d) % 65536), data |-> ix],
     uvs |-> [i \in 1..Len(d) |-> <<d[i].u, d[i].v>>],
     colors |-> [i \in 1..Len(d) |-> d[i].color]]

\* CpuTexture {data, width, height}
CpuTexture(bitmap) == [data |-> bitmap, width |-> AtlasSize, height |-> AtlasSize]

\* the call has not returned
Running == [tag |-> "Running"]
Ok(mesh, texture) == [tag |-> "Ok", mesh |-> mesh, texture |-> texture]
Err(kind) == [tag |-> "Err", error |-> kind]

(***************************************************************************)
(* Inputs: the models and texture files a conversion is run on             *)
(***************************************************************************)
McModelFace(uv, texture, rotation) ==
    [uv |-> uv, texture |-> texture, rotation |-> rotation]

McModelFaces(n, e, s, w, u, d) ==
    [north |-> n, east |-> e, south |-> s, west |-> w, up |-> u, down |-> d]

McModelRotation(angle, axis, origin) ==
    [angle |-> angle, axis |-> axis, origin |-> origin]

McModelElement(from, to, faces, rotation) ==
    [from |-> from, to |-> to, faces |-> faces, rotation |-> rotation]

McModelJson(textures, elements) == [textures |-> textures, elements |-> elements]

IdA == <<"a">>
IdB == <<"b">>
RefA == <<"#", "a">>
RefB == <<"#", "b">>

\* the whole 16x16 texel square
FullUv == <<0, 0, 16 * TexelRef, 16 * TexelRef>>

GoodFace == McModelFace(FullUv, RefA, 0)
AllFaces(f) == McModelFaces(Some(f), Some(f), Some(f), Some(f), Some(f), Some(f))
OnlyUp(f) == McModelFaces(None, None, None, None, Some(f), None)
OnlyDown(f) == McModelFaces(None, None, None, None, None, Some(f))
NoFaces == McModelFaces(None, None, None, None, None, None)

\* the image files under the base directory: a 16x16, a 32x32 and one wider
\* than the atlas
AllFiles ==
    (TexturePath(<<"a">>) :> <<16, 16>>) @@ (TexturePath(<<"b">>) :> <<32, 32>>)
    @@ (TexturePath(<<"wide">>) :> <<2 * AtlasSize, 16>>)

FileSystems == {[p \in D |-> AllFiles[p]] : D \in SUBSET (DOMAIN AllFiles)}

TextureEntries ==
    {[id |-> i, path |-> q] : i \in {IdA, IdB}, q \in {<<"a">>, <<"b">>, <<"wide">>}}

\* IndexMap<String, String>: entries in declared order, keys distinct
TextureMaps ==
    {<<>>} \cup {<<t>> : t \in TextureEntries}
    \cup {q \in TextureEntries \X TextureEntries : q[1].id # q[2].id}

OneTexture == <<[id |-> IdA, path |-> <<"a">>]>>
OneFile == [p \in {TexturePath(<<"a">>)} |-> AllFiles[p]]

Cube == McModelElement(<<0, 0, 0>>, <<2, 2, 2>>, AllFaces(GoodFace), None)

\* family 1: every texture mapping and file system, under a small element
TextureModels ==
    {[m |-> McModelJson(t, e), files |-> f] :
        t \in TextureMaps, f \in FileSystems,
        e \in {<<>>,
               <<McModelElement(<<0, 0, 0>>, <<2, 2, 2>>, OnlyUp(GoodFace), None)>>,
               <<McModelElement(<<0, 0, 0>>, <<2, 2, 2>>,
                                OnlyDown(McModelFace(FullUv, RefB, 90)), None)>>}}

\* family 2: one cube, each face absent, good, without sigil or with a
\* rotation outside {0, 90, 180, 270}
FaceChoices ==
    {None, Some(GoodFace), Some(McModelFace(FullUv, <<"a">>, 0)),
     Some(McModelFace(FullUv, RefA, 45))}

FaceModels ==
    {[m |-> McModelJson(OneTexture,
                        <<McModelElement(<<0, 0, 0>>, <<2, 2, 2>>,
                                         McModelFaces(n, e, s, w, u, d), None)>>),
      files |-> OneFile] :
        n \in FaceChoices, e \in FaceChoices, s \in FaceChoices,
        w \in FaceChoices, u \in FaceChoices, d \in FaceChoices}

\* family 3: one face with each uv rectangle, reference and rotation
UvRects ==
    {FullUv, <<0, 0, 0, 16 * TexelRef>>, <<16 * TexelRef, 0, 16 * TexelRef, 16 * TexelRef>>,
     <<16 * TexelRef - 1, 0, 16 * TexelRef, 16 * TexelRef>>,
     <<16 * TexelRef, 16 * TexelRef, 0, 0>>, <<0, 0, 8 * TexelRef, 4 * TexelRef>>}

UvModels ==
    {[m |-> McModelJson(OneTexture,
                        <<McModelElement(<<0, 0, 0>>, <<2, 2, 2>>,
                                         OnlyUp(McModelFace(uv, t, r)), None)>>),
      files |-> fs] :
        uv \in UvRects, t \in {RefA, RefB, <<"a">>}, r \in {0, 90, 180, 270, 45},
        fs \in {OneFile, [p \in {} |-> <<0, 0>>]}}

\* family 4: sequences of unrotated boxes that share corners
PlainBoxes ==
    {McModelElement(f, t, fs, None) :
        f \in {<<0, 0, 0>>, <<2, 0, 0>>}, t \in {<<2, 2, 2>>},
        fs \in {AllFaces(GoodFace), OnlyUp(GoodFace)}}

RECURSIVE SeqsUpTo(_, _)
SeqsUpTo(S, n) ==
    IF n = 0 THEN {<<>>}
    ELSE LET shorter == SeqsUpTo(S, n - 1)
         IN shorter \cup {Append(q, x) : q \in shorter, x \in S}

PlainModels ==
    {[m |-> McModelJson(OneTexture, es), files |-> OneFile] :
        es \in SeqsUpTo(PlainBoxes, MaxElements)}

\* family 5: one rotated box; corners in either order, positions up to Huge
Origins == {<<1, 1, 1>>, <<0, 0, 0>>, <<2, 1, 1>>, <<-Huge, 0, 0>>}

RotatedBoxes ==
    {McModelElement(b[1], b[2], fs, Some(McModelRotation(a, ax, o))) :
        b \in {<<<<0, 0, 0>>, <<2, 2, 2>>>>, <<<<2, 2, 2>>, <<0, 0, 0>>>>,
               <<<<0, 0, 0>>, <<4, 2, 2>>>>, <<<<Huge, 0, 0>>, <<0, 2, 2>>>>},
        fs \in {AllFaces(GoodFace), OnlyUp(GoodFace)},
        a \in Angles, ax \in Axes, o \in Origins}

RotatedModels ==
    {[m |-> McModelJson(OneTexture, <<e>>), files |-> OneFile] : e \in RotatedBoxes}

Inputs == TextureModels \cup FaceModels \cup UvModels \cup PlainModels \cup RotatedModels

(***************************************************************************)
(* The conversion, to_cpu_mesh, step by step.                              *)
(*   model, files      the McModelJson and the image files (inputs)        *)
(*   pc                "fallback", "textures", "elements" or "done"        *)
(*   ti, ei, fi        the next texture, element and direction             *)
(*   atlas, err_tex, atlas_mappings, tex, datas, indices   the locals      *)
(*   result            Running until the call returns, then Ok or Err      *)
(*   pushed, opened, allocs, resolved   history of the call: the push_pos  *)
(*                     calls, the image::open calls, the allocate calls    *)
(*                     and the get_uv calls                                *)
(*   run, first        the number of the call, and what the first call     *)
(*                     built, kept when the same model is converted again  *)
(*   probe             the argument and value of a function applied alone  *)
(***************************************************************************)
Locals0 ==
    /\ ti = 1 /\ ei = 1 /\ fi = 1
    /\ atlas = NewAtlas /\ err_tex = None
    /\ atlas_mappings = [x \in {} |-> None]
    /\ tex = {} /\ datas = <<>> /\ indices = <<>>
    /\ result = Running
    /\ pushed = <<>> /\ opened = <<>> /\ allocs = <<>> /\ resolved = <<>>

Init ==
    /\ \E i \in Inputs : model = i.m /\ files = i.files
    /\ pc = "fallback"
    /\ Locals0
    /\ run = 1 /\ first = None
    /\ probe = None

\* a "?" or bail! returns Err(kind): the locals are dropped
Return(r) ==
    /\ result' = r
    /\ pc' = "done"
    /\ atlas' = NewAtlas /\ err_tex' = None
    /\ atlas_mappings' = [x \in {} |-> None]
    /\ tex' = {} /\ datas' = <<>> /\ indices' = <<>>
    /\ ti' = 1 /\ ei' = 1 /\ fi' = 1

\* err_tex = atlas.allocate(size2(16, 16)).with_context(..)?, then the checkerboard
AllocFallback ==
    /\ pc = "fallback"
    /\ LET a == Allocate(atlas, TexelRef, TexelRef)
       IN /\ allocs' = Append(allocs, [for |-> <<"fallback">>, size |-> <<TexelRef, TexelRef>>,
                                       got |-> a # None])
          /\ IF a = None
             THEN Return(Err("unable to allocate not-found 16x16 space on atlas"))
             ELSE /\ err_tex' = Some([rectangle |-> Unwrap(a).rectangle])
                  /\ atlas' = Unwrap(a).atlas
                  /\ tex' = {Blit(Unwrap(a).rectangle, <<"checkerboard">>)}
                  /\ pc' = "textures"
                  /\ UNCHANGED <<ti, ei, fi, atlas_mappings, datas, indices, result>>
    /\ UNCHANGED <<model, files, pushed, opened, resolved, run, first, probe>>

\* one iteration of "for (tex_id, tex_path) in &self.textures"
LoadTexture ==
    /\ pc = "textures"
    /\ ti <= Len(model.textures)
    /\ LET entry == TextureOrder(model.textures)[ti]
           tex_id == entry.id
           texture_path == TextureFile(entry)
           tile == ImageOpen(files, texture_path)
       IN /\ opened' = Append(opened, [id |-> tex_id, path |-> texture_path,
                                       ok |-> IsSome(tile)])
          /\ IF IsSome(tile)
             THEN LET mapping == Allocate(atlas, Unwrap(tile)[1], Unwrap(tile)[2])
                  IN /\ allocs' = Append(allocs, [for |-> tex_id, size |-> Unwrap(tile),
                                                  got |-> mapping # None])
                     /\ IF mapping = None
                        THEN Return(Err("unable to store image on atlas"))
                        ELSE /\ atlas' = Unwrap(mapping).atlas
                             /\ tex' = tex \cup {Blit(Unwrap(mapping).rectangle, texture_path)}
                             /\ atlas_mappings' =
                                    MapInsert(atlas_mappings, tex_id,
                                              [rectangle |-> Unwrap(mapping).rectangle])
                             /\ ti' = ti + 1
                             /\ UNCHANGED <<pc, ei, fi, err_tex, datas, indices, result>>
             ELSE \* eprintln!("unable to open texture: ..")
                  /\ ti' = ti + 1
                  /\ UNCHANGED <<pc, ei, fi, atlas, err_tex, atlas_mappings, tex,
                                 datas, indices, result, allocs>>
    /\ UNCHANGED <<model, files, pushed, resolved, run, first, probe>>

\* the texture loop is over: the CpuTexture is built, mesh building starts
BuildTexture ==
    /\ pc = "textures"
    /\ ti > Len(model.textures)
    /\ pc' = "elements"
    /\ UNCHANGED <<model, files, ti, ei, fi, atlas, err_tex, atlas_mappings, tex,
                   datas, indices, result, pushed, opened, allocs, resolved,
                   run, first, probe>>

\* "if let Some(face) = &element.faces.<dir> {..}" for the next direction of
\* the current element
EmitFace ==
    /\ pc = "elements"
    /\ ei <= Len(model.elements)
    /\ LET element == model.elements[ei]
           dir == Directions[fi]
           face == element.faces[dir]
           out == GetUv(Unwrap(face), atlas_mappings, Unwrap(err_tex))
           keys == FaceKeys(element, dir, out)
           st == PushAll([datas |-> datas, indices |-> indices], keys)
           next == /\ fi' = IF fi = 6 THEN 1 ELSE fi + 1
                   /\ ei' = IF fi = 6 THEN ei + 1 ELSE ei
       IN IF ~IsSome(face)
          THEN /\ next
               /\ UNCHANGED <<pc, ti, atlas, err_tex, atlas_mappings, tex, datas,
                              indices, result, pushed, resolved>>
          ELSE /\ resolved' = Append(resolved, [e |-> ei, dir |-> dir,
                                                face |-> Unwrap(face), out |-> out])
               /\ IF ~out.ok
                  THEN Return(Err(out.err)) /\ UNCHANGED pushed
                  ELSE /\ next
                       /\ datas' = st.datas
                       /\ indices' = st.indices
                       /\ pushed' = pushed \o
                              [k \in 1..6 |->
                                  [key |-> keys[k], e |-> ei, dir |-> dir,
                                   tmpl |-> TemplatePos(BoxCorners(element),
                                                        FaceTemplate(dir, out.flip)[k])]]
                       /\ UNCHANGED <<pc, ti, atlas, err_tex, atlas_mappings, tex, result>>
    /\ UNCHANGED <<model, files, opened, allocs, run, first, probe>>

\* the element loop is over: the CpuMesh is built and Ok((cpu_mesh, texture)) returned
Finish ==
    /\ pc = "elements"
    /\ ei > Len(model.elements)
    /\ LET mesh == CpuMesh(datas, indices)
       IN IF mesh.indices.form = "too many indices"
          THEN Return(Err("too many indices"))
          ELSE /\ result' = Ok(mesh, CpuTexture(tex))
               /\ pc' = "done"
               /\ UNCHANGED <<ti, ei, fi, atlas, err_tex, atlas_mappings, tex, datas, indices>>
    /\ UNCHANGED <<model, files, pushed, opened, allocs, resolved, run, first, probe>>

\* the same model, with the same files, is converted a second time
Reconvert ==
    /\ pc = "done"
    /\ run = 1
    /\ run' = 2
    /\ first' = Some([result |-> result, atlas_mappings |-> atlas_mappings, tex |-> tex,
                      opened |-> opened, allocs |-> allocs])
    /\ pc' = "fallback"
    /\ ti' = 1 /\ ei' = 1 /\ fi' = 1
    /\ atlas' = NewAtlas /\ err_tex' = None
    /\ atlas_mappings' = [x \in {} |-> None]
    /\ tex' = {} /\ datas' = <<>> /\ indices' = <<>>
    /\ result' = Running
    /\ pushed' = <<>> /\ opened' = <<>> /\ allocs' = <<>> /\ resolved' = <<>>
    /\ UNCHANGED <<model, files, probe>>

Next == AllocFallback \/ LoadTexture \/ BuildTexture \/ EmitFace \/ Finish \/ Reconvert

Spec == Init /\ [][Next]_vars

(***************************************************************************)
(* The index width alone: "match datas.len()" applied to lengths around    *)
(* each boundary of the match, lengths no model of the bounds above can    *)
(* reach.  probe holds the length (as limbs hi, lo) and then the form.     *)
(***************************************************************************)
Lengths ==
    {<<0, lo>> : lo \in 0..MaxDelta}
    \cup {<<0, lo>> : lo \in (255 - MaxDelta)..(255 + MaxDelta)}
    \cup {<<0, lo>> : lo \in (65535 - MaxDelta)..65535}
    \cup {<<1, lo>> : lo \in 0..MaxDelta}
    \cup {<<65535, lo>> : lo \in (65535 - MaxDelta)..65535}
    \cup {<<65536, lo>> : lo \in 0..MaxDelta}

InitIndices ==
    /\ model = McModelJson(<<>>, <<>>) /\ files = [x \in {} |-> <<0, 0>>]
    /\ pc = "match"
    /\ Locals0
    /\ run = 1 /\ first = None
    /\ \E n \in Lengths : probe = Some([hi |-> n[1], lo |-> n[2], form |-> "unmatched"])

ApplyIndicesForm ==
    /\ pc = "match"
    /\ Unwrap(probe).form = "unmatched"
    /\ probe' = Some([Unwrap(probe) EXCEPT !.form = IndicesForm(Unwrap(probe).hi, Unwrap(probe).lo)])
    /\ UNCHANGED <<model, files, pc, ti, ei, fi, atlas, err_tex, atlas_mappings, tex,
                   datas, indices, result, pushed, opened, allocs, resolved, run, first>>

NextIndices == ApplyIndicesForm

SpecIndices == InitIndices /\ [][NextIndices]_vars

(***************************************************************************)
(* Properties                                                              *)
(***************************************************************************)
\* the vertex table and the index sequence exist: the call is in its element
\* loop or has returned them
TableLive == pc = "elements" \/ result.tag = "Ok"

\* the keys pushed before call i that are bit for bit the key of call i
SeenBefore(i) == {j \in 1..(i - 1) : pushed[j].key = pushed[i].key}

\* the first call that pushed the key of call i
FirstPush(i) ==
    CHOOSE j \in SeenBefore(i) \cup {i} : \A k \in SeenBefore(i) \cup {i} : j <= k

\* the calls that pushed a key no earlier call had pushed
FirstSeen == {i \in 1..Len(pushed) : SeenBefore(i) = {}}

\* C1: after any sequence of pushes the table holds no two identical keys, in
\* first-seen order, the index sequence has one entry per push, and entry i is
\* the table position of the key of push i: a key seen before gets its existing
\* index and leaves the table alone, a new key is appended and gets the
\* previous table length.
C1_DedupTable ==
    TableLive =>
        /\ Len(indices) = Len(pushed)
        /\ \A i, j \in 1..Len(datas) : i # j => datas[i] # datas[j]
        /\ Len(datas) = Cardinality(FirstSeen)
        /\ \A i \in 1..Len(pushed) :
              /\ indices[i] + 1 \in 1..Len(datas)
              /\ datas[indices[i] + 1] = pushed[i].key
              /\ indices[i] = Cardinality({j \in FirstSeen : j < FirstPush(i)})

\* C2: vertex identity is bit-exact: two pushed vertices share one table entry
\* if and only if all their float components have the same bit pattern and
\* their colors are equal; two keys with identical bit patterns, a NaN
\* component included, collapse to one entry.
C2_BitExactIdentity ==
    TableLive =>
        \A i, j \in 1..Len(pushed) :
            (indices[i] = indices[j]) <=> (pushed[i].key = pushed[j].key)

\* a texture reference that starts with '#', and a rotation get_uv supports
FaceValid(face) ==
    /\ Len(face.texture) > 0 /\ face.texture[1] = "#"
    /\ face.rotation \in {0, 90, 180, 270}

EnabledFaces ==
    {<<e, d>> \in (1..Len(model.elements)) \X (1..6) :
        IsSome(model.elements[e].faces[Directions[d]])}

AllFacesValid ==
    \A f \in EnabledFaces : FaceValid(Unwrap(model.elements[f[1]].faces[Directions[f[2]]]))

AllAllocated == \A k \in 1..Len(allocs) : allocs[k].got

\* C3: the call returns a mesh and an atlas only when every enabled face has a
\* reference starting with '#' and a rotation in {0, 90, 180, 270} and every
\* allocation succeeded; otherwise it returns an error without any mesh or
\* atlas, however many faces were emitted before; absent faces cause no error.
C3_AllOrNothing ==
    /\ result.tag = "Ok" => AllFacesValid /\ AllAllocated
    /\ pc = "done" /\ ~(AllFacesValid /\ AllAllocated) =>
          result.tag = "Err" /\ DOMAIN result = {"tag", "error"}
    /\ result.tag = "Err" =>
          \/ ~AllAllocated
          \/ \E r \in 1..Len(resolved) : ~FaceValid(resolved[r].face)

\* C3's case: an error after whole faces were emitted, with absent faces passed
C3_Witness ==
    /\ result.tag = "Err"
    /\ Len(pushed) >= 12
    /\ Cardinality(EnabledFaces) < 6

\* the locals of the atlas exist: the call is past the fallback allocation
\* and has not failed
AtlasLive == pc \in {"textures", "elements"} \/ result.tag = "Ok"

\* a is between b and c, whichever of the two is larger
Between(a, b, c) == (b <= a /\ a <= c) \/ (c <= a /\ a <= b)

\* the declared uv lies in the 16x16 texel square
UvInSquare(face) == \A k \in 1..4 : face.uv[k] >= 0 /\ face.uv[k] <= 16 * TexelRef

\* u (or v) lies within the normalized bounds of a rectangle, in bleed units
InsideU(rect, u) == TexelRef * rect.min[1] <= u /\ u <= TexelRef * rect.max[1]
InsideV(rect, v) == TexelRef * rect.min[2] <= v /\ v <= TexelRef * rect.max[2]

\* C4: a texture that fails to load is not fatal: it gets no mapping entry,
\* the remaining textures are still loaded and mapped, and the conversion
\* succeeds; every face whose stripped id has no mapping entry is resolved
\* against the 16x16 fallback rectangle, so that for a declared uv inside
\* [0,16] its resolved UVs lie inside the fallback rectangle's bounds.
C4_FallbackSubstitution ==
    /\ AtlasLive =>
          \A k \in 1..Len(opened) :
              /\ ~opened[k].ok => opened[k].id \notin DOMAIN atlas_mappings
              /\ opened[k].ok => opened[k].id \in DOMAIN atlas_mappings
    /\ pc = "elements" => Len(opened) = Len(model.textures)
    /\ pc = "done" /\ AllFacesValid /\ AllAllocated => result.tag = "Ok"
    /\ AtlasLive =>
          \A r \in 1..Len(resolved) :
              LET face == resolved[r].face
                  out == resolved[r].out
                  fallback == Unwrap(err_tex).rectangle
              IN out.ok /\ Tail(face.texture) \notin DOMAIN atlas_mappings =>
                    /\ out.offset = fallback
                    /\ fallback.max = <<fallback.min[1] + 16, fallback.min[2] + 16>>
                    /\ UvInSquare(face) =>
                          /\ InsideU(fallback, out.uv[1]) /\ InsideU(fallback, out.uv[3])
                          /\ InsideV(fallback, out.uv[2]) /\ InsideV(fallback, out.uv[4])

\* C6: the bleed moves u0 and u1 (and v0 and v1) toward each other by
\* 1/(2048*16) and never changes which of the two is larger: the resolved pair
\* lies within the closed interval spanned by the unbled pair, and the signs of
\* u1-u0 and v1-v0 are the same before and after, also when the two values are
\* equal or closer than twice the bleed.
C6_BleedKeepsOrder ==
    \A r \in 1..Len(resolved) :
        LET raw == resolved[r].out.raw
            uv == resolved[r].out.uv
        IN resolved[r].out.ok =>
              /\ Between(uv[1], raw[1], raw[3]) /\ Between(uv[3], raw[1], raw[3])
              /\ Between(uv[2], raw[2], raw[4]) /\ Between(uv[4], raw[2], raw[4])
              /\ Sign(uv[3] - uv[1]) = Sign(raw[3] - raw[1])
              /\ Sign(uv[4] - uv[2]) = Sign(raw[4] - raw[2])

\* the declared rectangle, V-flipped, offset by the rectangle used, normalized
\* and bled, with no corner permutation
DirectMapping(face, offset) ==
    LET u == BleedPair(Normalize(offset.min[1], face.uv[1]), Normalize(offset.min[1], face.uv[3]))
        v == BleedPair(Normalize(offset.min[2], face.uv[4]), Normalize(offset.min[2], face.uv[2]))
    IN <<u[1], v[1], u[2], v[2]>>

\* C7: for a face with a valid reference, rotation 0 resolves to the V-flipped,
\* offset, normalized and bled declared rectangle with no corner permutation,
\* and rotation 180 of the same face to exactly that result with u0 and u1
\* exchanged and v0 and v1 exchanged; the swap flag is false for 0 and 180 and
\* true for 90 and 270.
C7_RotationHalfTurn ==
    AtlasLive =>
        \A r \in 1..Len(resolved) :
            LET face == resolved[r].face
                at(rot) == GetUv([face EXCEPT !.rotation = rot], atlas_mappings, Unwrap(err_tex))
            IN resolved[r].out.ok =>
                  /\ at(0).uv = DirectMapping(face, resolved[r].out.offset)
                  /\ at(180).uv = <<at(0).uv[3], at(0).uv[4], at(0).uv[1], at(0).uv[2]>>
                  /\ ~at(0).flip /\ ~at(180).flip /\ at(90).flip /\ at(270).flip

\* hi * 65536 + lo <= bhi * 65536 + blo
LenLe(hi, lo, bhi, blo) == hi < bhi \/ (hi = bhi /\ lo <= blo)

Matched == pc = "match" /\ Unwrap(probe).form # "unmatched"

\* C5 as stated: the 8-bit form for every n <= 255, the 16-bit form for
\* 256 <= n <= 65535, the 32-bit form for 65536 <= n <= 2^32-1, a fatal error
\* for larger n.
C5_Original ==
    Matched =>
        LET hi == Unwrap(probe).hi
            lo == Unwrap(probe).lo
        IN Unwrap(probe).form =
              IF LenLe(hi, lo, 0, 255) THEN "U8"
              ELSE IF LenLe(hi, lo, 0, 65535) THEN "U16"
              ELSE IF LenLe(hi, lo, 65535, 65535) THEN "U32"
              ELSE "too many indices"

\* C5, amended: no index buffer for n = 0, the 8-bit form for 1 <= n <= 255,
\* the 16-bit form for 256 <= n <= 65535, the 32-bit form for
\* 65536 <= n <= 2^32-1, a fatal error for larger n.
C5_IndexWidth ==
    Matched =>
        LET hi == Unwrap(probe).hi
            lo == Unwrap(probe).lo
        IN Unwrap(probe).form =
              IF hi = 0 /\ lo = 0 THEN "None"
              ELSE IF LenLe(hi, lo, 0, 255) THEN "U8"
              ELSE IF LenLe(hi, lo, 0, 65535) THEN "U16"
              ELSE IF LenLe(hi, lo, 65535, 65535) THEN "U32"
              ELSE "too many indices"

\* C5's case: 256 vertices have been matched to the 16-bit form
C5_Witness ==
    Matched /\ Unwrap(probe).hi = 0 /\ Unwrap(probe).lo = 256 /\ Unwrap(probe).form = "U16"

\* C8 as stated: the file the atlas builder tries to load for a texture id is
\* base_directory/<id>.png, with <id> the key of the mapping.
C8_Original ==
    \A k \in 1..Len(opened) :
        /\ opened[k].id = model.textures[k].id
        /\ opened[k].path = <<"base", "/">> \o model.textures[k].id \o <<".png">>

\* C8, amended: for each entry (id, path fragment) of the texture mapping the
\* file the atlas builder tries to load is base_directory/<path fragment>.png,
\* and what it loads is recorded under the key id, the id a face reference
\* "#id" is looked up by.
C8_TextureFile ==
    /\ \A k \in 1..Len(opened) :
          /\ opened[k].id = model.textures[k].id
          /\ opened[k].path = <<"base", "/">> \o model.textures[k].path \o <<".png">>
          /\ opened[k].ok <=> opened[k].path \in DOMAIN files
          /\ AtlasLive /\ opened[k].ok =>
                /\ opened[k].id \in DOMAIN atlas_mappings
                /\ Blit(atlas_mappings[opened[k].id].rectangle, opened[k].path) \in tex
    /\ AtlasLive =>
          \A r \in 1..Len(resolved) :
              resolved[r].out.ok /\ Tail(resolved[r].face.texture) \in DOMAIN atlas_mappings =>
                  resolved[r].out.offset = atlas_mappings[Tail(resolved[r].face.texture)].rectangle

\* C8's case: an entry whose key and path fragment differ was loaded, and a
\* face that refers to its key was resolved
C8_Witness ==
    /\ AtlasLive
    /\ \E k \in 1..Len(opened) :
          /\ opened[k].ok
          /\ model.textures[k].id # model.textures[k].path
          /\ \E r \in 1..Len(resolved) :
                resolved[r].out.ok /\ Tail(resolved[r].face.texture) = opened[k].id

\* a quarter turn of an offset about an axis, written out coordinate by
\* coordinate: about Y (dx, dz) goes to (dz, -dx), about X (dy, dz) goes to
\* (-dz, dy), about Z (dx, dy) goes to (-dy, dx)
QuarterTurn(axis, d) ==
    CASE axis = "X" -> <<d[1], -d[3], d[2]>>
      [] axis = "Y" -> <<d[3], d[2], -d[1]>>
      [] axis = "Z" -> <<-d[2], d[1], d[3]>>

RECURSIVE Turns(_, _, _)
Turns(axis, k, d) == IF k = 0 THEN d ELSE Turns(axis, k - 1, QuarterTurn(axis, d))

AxisIndex(axis) == CASE axis = "X" -> 1 [] axis = "Y" -> 2 [] axis = "Z" -> 3

\* every coordinate of the element is a number f64 arithmetic is exact on
ExactElement(e) ==
    /\ \A i \in 1..3 : IsSmall(e.from[i]) /\ IsSmall(e.to[i])
    /\ IsSome(e.rotation) => \A i \in 1..3 : IsSmall(Unwrap(e.rotation).origin[i])

PushedPos(i) == <<pushed[i].key.x, pushed[i].key.y, pushed[i].key.z>>

\* the positions emitted for an element are its template positions turned
\* about the declared axis around the origin, the coordinate along the axis
\* unchanged; without a rotation they are the template positions
PositionsRotated ==
    \A i \in 1..Len(pushed) :
        LET e == model.elements[pushed[i].e]
            v == pushed[i].tmpl
            pos == PushedPos(i)
        IN IF IsSome(e.rotation)
           THEN ExactElement(e) =>
                   LET r == Unwrap(e.rotation)
                       o == r.origin
                       d == <<v[1] - o[1], v[2] - o[2], v[3] - o[3]>>
                       t == Turns(r.axis, r.angle \div 90, d)
                   IN /\ pos = <<t[1] + o[1], t[2] + o[2], t[3] + o[3]>>
                      /\ pos[AxisIndex(r.axis)] = v[AxisIndex(r.axis)]
                      /\ r.axis = "Y" /\ r.angle = 90 =>
                            /\ pos[1] - o[1] = d[3]
                            /\ pos[3] - o[3] = -d[1]
           ELSE pos = v

Corners(e) ==
    {<<x, y, z>> : x \in {e.from[1], e.to[1]}, y \in {e.from[2], e.to[2]},
                   z \in {e.from[3], e.to[3]}}

\* element k is turned 90 degrees about Y around the centre of its box
CentredY90(k) ==
    LET e == model.elements[k]
    IN /\ ExactElement(e)
       /\ IsSome(e.rotation)
       /\ Unwrap(e.rotation).axis = "Y" /\ Unwrap(e.rotation).angle = 90
       /\ \A i \in 1..3 : 2 * Unwrap(e.rotation).origin[i] = e.from[i] + e.to[i]

SquareInXZ(k) ==
    LET e == model.elements[k]
    IN e.to[1] - e.from[1] = e.to[3] - e.from[3]
       \/ e.to[1] - e.from[1] = e.from[3] - e.to[3]

\* the positions emitted for element k are corners of its unrotated box, all
\* of them once all six faces are emitted
OntoCorners(k) ==
    LET e == model.elements[k]
        emitted == {PushedPos(i) : i \in {j \in 1..Len(pushed) : pushed[j].e = k}}
    IN /\ emitted \subseteq Corners(e)
       /\ result.tag = "Ok" /\ (\A dir \in DOMAIN e.faces : IsSome(e.faces[dir])) =>
             emitted = Corners(e)

Loadable(entry) == <<"base", "/">> \o entry.path \o <<".png">> \in DOMAIN files

ShadeOf ==
    [north |-> 8, east |-> 6, south |-> 8, west |-> 6, up |-> 10, down |-> 5]

Gray(t) == <<t, t, t, 10>>

\* the directions of the faces the model enables
EnabledDirections ==
    {Directions[f[2]] : f \in EnabledFaces}

\* C11: every vertex emitted for a face carries the opaque gray of the face's
\* direction (north 0.8, east 0.6, south 0.8, west 0.6, up 1.0, down 0.5),
\* whatever the element's corners and rotation and the face's uv, texture and
\* UV rotation; every vertex of the table and of the mesh has the gray of an
\* enabled direction, so only up faces give only 1.0 and only down faces
\* only 0.5.
C11_FlatShading ==
    /\ \A i \in 1..Len(pushed) : pushed[i].key.color = Gray(ShadeOf[pushed[i].dir])
    /\ TableLive =>
          \A k \in 1..Len(datas) :
              \E i \in 1..Len(pushed) :
                  pushed[i].key = datas[k] /\ datas[k].color = Gray(ShadeOf[pushed[i].dir])
    /\ result.tag = "Ok" =>
          /\ Len(result.mesh.colors) = Len(datas)
          /\ \A k \in 1..Len(datas) :
                /\ result.mesh.colors[k] = datas[k].color
                /\ \E dir \in EnabledDirections : result.mesh.colors[k] = Gray(ShadeOf[dir])
                /\ EnabledDirections = {"up"} => result.mesh.colors[k] = Gray(10)
                /\ EnabledDirections = {"down"} => result.mesh.colors[k] = Gray(5)

\* C11's case: a model whose only face is a down face has been converted, and
\* its four vertices are in the mesh
C11_Witness ==
    /\ result.tag = "Ok"
    /\ EnabledDirections = {"down"}
    /\ Len(result.mesh.colors) = 4
    /\ \A k \in 1..4 : result.mesh.colors[k] = Gray(5)

\* fn faces_enabled: the faces of one element that are present
faces_enabled(element) ==
    Cardinality({d \in 1..6 : IsSome(element.faces[Directions[d]])})

\* fn face_count: the count summed over the elements, in order
RECURSIVE face_count_from(_, _)
face_count_from(elements, k) ==
    IF k > Len(elements) THEN 0
    ELSE faces_enabled(elements[k]) + face_count_from(elements, k + 1)

face_count(m) == face_count_from(m.elements, 1)

\* the number of faces emitted so far, and the pushes of the g-th of them
EmittedFaces == Len(pushed) \div 6

FacePush(g, k) == pushed[6 * (g - 1) + k]

FaceIndex(g, k) == indices[6 * (g - 1) + k]

\* two template positions are the ends of an edge of the box
AlongEdge(a, b) == Cardinality({i \in 1..3 : a[i] # b[i]}) <= 1

\* the six pushes of the g-th face go round its corners as A, B, C, C, D, A
CornerOrder(g) ==
    /\ \A k \in 1..6 : FacePush(g, k).e = FacePush(g, 1).e /\ FacePush(g, k).dir = FacePush(g, 1).dir
    /\ FacePush(g, 6).key = FacePush(g, 1).key /\ FacePush(g, 6).tmpl = FacePush(g, 1).tmpl
    /\ FacePush(g, 4).key = FacePush(g, 3).key /\ FacePush(g, 4).tmpl = FacePush(g, 3).tmpl
    /\ AlongEdge(FacePush(g, 1).tmpl, FacePush(g, 2).tmpl)
    /\ AlongEdge(FacePush(g, 2).tmpl, FacePush(g, 3).tmpl)
    /\ AlongEdge(FacePush(g, 3).tmpl, FacePush(g, 5).tmpl)
    /\ AlongEdge(FacePush(g, 5).tmpl, FacePush(g, 1).tmpl)

\* A and C keep their UVs, the swap flag exchanges those of B and D
CornerUvs(g) ==
    LET out == resolved[g].out
        uvOf(k) == <<FacePush(g, k).key.u, FacePush(g, k).key.v>>
        lo == <<out.uv[1], out.uv[2]>>
        hi == <<out.uv[3], out.uv[4]>>
    IN /\ resolved[g].e = FacePush(g, 1).e /\ resolved[g].dir = FacePush(g, 1).dir
       /\ uvOf(1) = <<hi[1], lo[2]>>
       /\ uvOf(3) = <<lo[1], hi[2]>>
       /\ uvOf(2) = IF out.flip THEN lo ELSE hi
       /\ uvOf(5) = IF out.flip THEN hi ELSE lo

\* the four corners of the g-th face were pushed with four different keys
FourKeys(g) ==
    Cardinality({FacePush(g, k).key : k \in {1, 2, 3, 5}}) = 4

\* the indices of the g-th face read a, b, c, c, d, a with a, b, c, d different
IndexPattern(g) ==
    /\ FaceIndex(g, 6) = FaceIndex(g, 1)
    /\ FaceIndex(g, 4) = FaceIndex(g, 3)
    /\ Cardinality({FaceIndex(g, k) : k \in {1, 2, 3, 5}}) = 4

\* C12: each enabled face pushes 6 vertices in the order A, B, C, C, D, A
\* over its four corners, for both values of the swap flag, which only
\* exchanges the UVs paired with B and D; absent faces push nothing, so a
\* successful conversion has 6 * face_count() indices; a face whose four
\* corners are different vertices has the index pattern a, b, c, c, d, a, and
\* alone it gives 4 unique vertices.
C12_TwoTriangles ==
    /\ Len(pushed) = 6 * EmittedFaces
    /\ \A g \in 1..EmittedFaces : CornerOrder(g) /\ CornerUvs(g)
    /\ TableLive => Len(indices) = Len(pushed)
    /\ result.tag = "Ok" =>
          /\ Len(result.mesh.indices.data) = 6 * face_count(model)
          /\ EmittedFaces = face_count(model)
    /\ TableLive =>
          \A g \in 1..EmittedFaces :
              FourKeys(g) =>
                  /\ IndexPattern(g)
                  /\ face_count(model) = 1 => Len(datas) = 4 /\ indices = <<0, 1, 2, 2, 3, 0>>

====
